---- MODULE Spec2Model ----
(***************************************************************************)
(* Farkle: the dice counter, the combination classifier, the score         *)
(* calculator (src/src/lib.rs, count_dice .. get_score) and the turn and   *)
(* round loops (keep_dice, turn, round).                                   *)
(*                                                                         *)
(* A HashMap<i16, i16> is modelled as a function from the keys present to  *)
(* their counts; a `for (die, count) in map` loop visits the keys in an    *)
(* order the hasher decides, modelled as a sequence `ord` enumerating the  *)
(* keys once each, chosen nondeterministically by the caller.              *)
(***************************************************************************)
EXTENDS Integers, Sequences, FiniteSets, TLC

\* static TOTAL_DICE: i8 = 6
TOTAL_DICE == 6

\* rng.gen_range(1..=6), and the faces is_straight looks for
MinFace == 1
MaxFace == 6

Faces == MinFace..MaxFace

Range(s) == {s[i] : i \in DOMAIN s}

\* all sequences over S of length lo..hi
SeqsOf(S, lo, hi) == UNION {[1..n -> S] : n \in lo..hi}

(***************************************************************************)
(* Bounds of the model                                                     *)
(***************************************************************************)
\* the library functions are also applied to dice sets of up to
\* TOTAL_DICE + MaxExtra dice, with faces 1..LongFaces
MaxExtra == 1
LongFaces == 2

\* ... and to dice sets of up to MaxBadLen dice with faces MinFace-1..MaxFace+1
MaxBadLen == 3

\* in a round the random source rolls faces 1..RollFaces
RollFaces == 3

\* a round is followed until the sum of its turn scores exceeds MaxTotal
MaxTotal == 33000

\* i16 arithmetic of a release build: two's complement wrap-around
WrapI16(x) == ((x + 32768) % 65536) - 32768

(***************************************************************************)
(* Dice counter                                                            *)
(***************************************************************************)
count_dice(dice) ==
    [v \in Range(dice) |-> Cardinality({i \in DOMAIN dice : dice[i] = v})]

\* the iteration orders a map can have: every enumeration of its keys
RECURSIVE Enumerations(_)
Enumerations(S) ==
    IF S = {} THEN {<< >>}
    ELSE UNION {{<<x>> \o p : p \in Enumerations(S \ {x})} : x \in S}

IterOrders(dice) == Enumerations(Range(dice))

(***************************************************************************)
(* Combination classifier                                                  *)
(***************************************************************************)
\* lib.rs:49-53, the keys visited in order ord
RECURSIVE CountPairs(_, _)
CountPairs(map, ord) ==
    IF ord = << >> THEN 0
    ELSE (IF map[Head(ord)] = 2 THEN 1 ELSE 0) + CountPairs(map, Tail(ord))

is_three_pair(dice, ord) == CountPairs(count_dice(dice), ord) = 3

is_straight(dice) ==
    \A i \in 1..6 : \E j \in DOMAIN dice : dice[j] = i

\* lib.rs:107-111
RECURSIVE AnyAtLeast(_, _, _, _)
AnyAtLeast(num, map, ord, of_a_kind) ==
    IF ord = << >> THEN of_a_kind
    ELSE AnyAtLeast(num, map, Tail(ord),
                    IF map[Head(ord)] >= num THEN TRUE ELSE of_a_kind)

is_of_a_kind(num, dice, ord) == AnyAtLeast(num, count_dice(dice), ord, FALSE)

\* lib.rs:132-136
RECURSIVE CountTriplets(_, _)
CountTriplets(map, ord) ==
    IF ord = << >> THEN 0
    ELSE (IF map[Head(ord)] >= 3 THEN 1 ELSE 0) + CountTriplets(map, Tail(ord))

\* is_two_triplets with the test of is_three_pair pasted in
is_two_triplets_pairs(dice, ord) == CountPairs(count_dice(dice), ord) = 3

is_two_triplets(dice, ord) == CountTriplets(count_dice(dice), ord) = 2

\* `for _i in 0..count { new_dice.push(die) }`
Repeat(die, count) == [i \in 1..count |-> die]

\* lib.rs:165-171
RECURSIVE PushFew(_, _)
PushFew(map, ord) ==
    IF ord = << >> THEN << >>
    ELSE (IF map[Head(ord)] < 3 THEN Repeat(Head(ord), map[Head(ord)]) ELSE << >>)
         \o PushFew(map, Tail(ord))

\* strip_repeats with `count <= 3` for `count < 3`
RECURSIVE PushFewOrThree(_, _)
PushFewOrThree(map, ord) ==
    IF ord = << >> THEN << >>
    ELSE (IF map[Head(ord)] <= 3 THEN Repeat(Head(ord), map[Head(ord)]) ELSE << >>)
         \o PushFewOrThree(map, Tail(ord))

strip_repeats_le3(dice, ord) == PushFewOrThree(count_dice(dice), ord)

strip_repeats(dice, ord) == PushFew(count_dice(dice), ord)

\* lib.rs:200-206
RECURSIVE PushMany(_, _)
PushMany(map, ord) ==
    IF ord = << >> THEN << >>
    ELSE (IF map[Head(ord)] >= 3 THEN Repeat(Head(ord), map[Head(ord)]) ELSE << >>)
         \o PushMany(map, Tail(ord))

\* keep_repeats with `count >= 2` for `count >= 3`
RECURSIVE PushPairsToo(_, _)
PushPairsToo(map, ord) ==
    IF ord = << >> THEN << >>
    ELSE (IF map[Head(ord)] >= 2 THEN Repeat(Head(ord), map[Head(ord)]) ELSE << >>)
         \o PushPairsToo(map, Tail(ord))

keep_repeats_ge2(dice, ord) == PushPairsToo(count_dice(dice), ord)

keep_repeats(dice, ord) == PushMany(count_dice(dice), ord)

(***************************************************************************)
(* Score calculator                                                        *)
(***************************************************************************)
\* the loop of lib.rs:280-287 over the stripped dice
RECURSIVE ScoreOnesAndFives(_, _)
ScoreOnesAndFives(score, new_dice) ==
    IF new_dice = << >> THEN score
    ELSE ScoreOnesAndFives(
            IF Head(new_dice) = 1 THEN WrapI16(score + 100)
            ELSE IF Head(new_dice) = 5 THEN WrapI16(score + 50)
            ELSE score,
            Tail(new_dice))

\* get_score with `return 3000` for `score += 3000`
get_score_return_3000(dice, ord) ==
    IF is_two_triplets(dice, ord.p) THEN 2500
    ELSE IF is_three_pair(dice, ord.p) THEN 1500
    ELSE IF is_straight(dice) THEN 1500
    ELSE IF is_of_a_kind(6, dice, ord.p) THEN 5000
    ELSE IF is_of_a_kind(5, dice, ord.p) THEN 3000
    ELSE LET group ==
                 IF is_of_a_kind(4, dice, ord.p) THEN 2000
                 ELSE IF is_of_a_kind(3, dice, ord.p)
                      THEN LET new_dice == keep_repeats(dice, ord.k)
                           IN  IF new_dice[1] = 1 THEN 1000
                               ELSE WrapI16(new_dice[1] * 100)
                      ELSE 0
         IN  ScoreOnesAndFives(group, strip_repeats(dice, ord.s))

\* ord.p is the order the classifier predicates visit their maps in,
\* ord.k the order of keep_repeats, ord.s the order of strip_repeats
get_score(dice, ord) ==
    IF is_two_triplets(dice, ord.p) THEN 2500
    ELSE IF is_three_pair(dice, ord.p) THEN 1500
    ELSE IF is_straight(dice) THEN 1500
    ELSE IF is_of_a_kind(6, dice, ord.p) THEN 5000
    ELSE LET group ==
                 IF is_of_a_kind(5, dice, ord.p) THEN 3000
                 ELSE IF is_of_a_kind(4, dice, ord.p) THEN 2000
                 ELSE IF is_of_a_kind(3, dice, ord.p)
                      THEN LET new_dice == keep_repeats(dice, ord.k)
                           IN  IF new_dice[1] = 1 THEN 1000
                               ELSE WrapI16(new_dice[1] * 100)
                      ELSE 0
         IN  ScoreOnesAndFives(group, strip_repeats(dice, ord.s))


(***************************************************************************)
(* Turn and round                                                          *)
(***************************************************************************)
\* What get_dice_to_keep returns: a line whose characters, trimmed, are
\* distinct digits of "123456".  keep_dice only asks whether the line contains
\* a digit, so the line is modelled as the set of its digits.
KeepInputs == SUBSET (1..6)

\* lib.rs:360-377: position c is kept iff the input contains the digit c
keep_dice(d, input) ==
    LET keep_mask == [c \in 1..Len(d) |-> c \in input]
        kept[i \in 0..Len(d)] ==
            IF i = 0 THEN << >>
            ELSE IF keep_mask[i] THEN Append(kept[i - 1], d[i]) ELSE kept[i - 1]
    IN  kept[Len(d)]

\* the input names a position the pool does not have
Beyond(input, n) == \E c \in input : c > n

SameOrder(o) == [p |-> o, k |-> o, s |-> o]

\* turn(num_dice): every <<score, number kept, Beyond>> a turn can return,
\* over the rolls, the keep selections and the iteration orders
turn(n) ==
    LET keepers == {<<keep_dice(d, input), Beyond(input, n)>> :
                        d \in [1..n -> 1..RollFaces], input \in KeepInputs}
        outs == UNION {{<<get_score(kp[1], SameOrder(o)), Len(kp[1]), kp[2]>> :
                    o \in IterOrders(kp[1])} : kp \in keepers}
    IN  {r : r \in outs}

TurnResults == <<turn(1), turn(2), turn(3), turn(4), turn(5), turn(6)>>

\* the test of lib.rs:412 with `&&` for `||`
IsBust_and(kept, tscore) == kept = 0 /\ tscore = 0

\* lib.rs:412
IsBust(kept, tscore) == kept = 0 \/ tscore = 0

\* lib.rs:416 with `< 0` for `<= 0`
NextPool_lt(pool, kept) ==
    IF pool - kept < 0 THEN TOTAL_DICE ELSE pool - kept

\* lib.rs:416-421 without the reset to TOTAL_DICE
NextPool_no_reset(pool, kept) == pool - kept

\* lib.rs:416-421
NextPool(pool, kept) ==
    IF pool - kept <= 0 THEN TOTAL_DICE ELSE pool - kept

VARIABLES
    pc,           \* where round() is: "turn", "check", "ask", "done",
                  \* "exited" (process::exit), "panicked" (overflow check)
    num_dice,     \* round(): the pool size of the next turn
    round_score,  \* round(): the i16 accumulator
    turn_score,   \* what the last turn returned
    num_kept,
    result,       \* what round() returned, once pc = "done"
    rolled,       \* the pool size the last turn rolled
    beyond,       \* the last keep selection named a position beyond the pool
    total,        \* the arithmetic sum of the turn scores added so far
    hand,         \* library harness: the hand set the functions are applied to
    call,         \* the function applied last, and the one before it
    ret,          \* its outcome [kind, value]
    pcall,
    pret

vars == <<pc, num_dice, round_score, turn_score, num_kept, result, rolled,
          beyond, total, hand, call, ret, pcall, pret>>

roundVars == <<pc, num_dice, round_score, turn_score, num_kept, result, rolled,
               beyond, total>>

libVars == <<hand, call, ret, pcall, pret>>

NoOutcome == [kind |-> "none", value |-> 0]

RoundInit ==
    /\ pc = "turn"
    /\ num_dice = TOTAL_DICE
    /\ round_score = 0
    /\ turn_score = 0
    /\ num_kept = 0
    /\ result = 0
    /\ rolled = 0
    /\ beyond = FALSE
    /\ total = 0

LibIdle ==
    /\ hand = << >>
    /\ call = "none"
    /\ ret = NoOutcome
    /\ pcall = "none"
    /\ pret = NoOutcome

(***************************************************************************)
(* round()                                                                 *)
(***************************************************************************)
Init == RoundInit /\ LibIdle

\* let (turn_score, num_kept) = turn(num_dice)
Turn ==
    /\ pc = "turn"
    /\ total <= MaxTotal
    /\ \E r \in TurnResults[num_dice] :
          /\ turn_score' = r[1]
          /\ num_kept' = r[2]
          /\ beyond' = r[3]
    /\ rolled' = num_dice
    /\ pc' = "check"
    /\ UNCHANGED <<num_dice, round_score, result, total>>
    /\ UNCHANGED libVars

\* get_dice_to_keep reads a line containing "q"
QuitAtKeep ==
    /\ pc = "turn"
    /\ pc' = "exited"
    /\ UNCHANGED <<num_dice, round_score, turn_score, num_kept, result, rolled,
                   beyond, total>>
    /\ UNCHANGED libVars

\* `break`, then the trailing 0
Bust ==
    /\ pc = "check"
    /\ IsBust(num_kept, turn_score)
    /\ result' = 0
    /\ pc' = "done"
    /\ UNCHANGED <<num_dice, round_score, turn_score, num_kept, rolled, beyond,
                   total>>
    /\ UNCHANGED libVars

\* lib.rs:416-424.  round_score += turn_score overflows i16 either by a panic
\* (overflow checks on) or by wrapping (overflow checks off).
Continue ==
    /\ pc = "check"
    /\ ~IsBust(num_kept, turn_score)
    /\ num_dice' = NextPool(num_dice, num_kept)
    /\ total' = total + turn_score
    /\ \/ /\ round_score + turn_score = WrapI16(round_score + turn_score)
          /\ round_score' = round_score + turn_score
          /\ pc' = "ask"
       \/ /\ round_score + turn_score # WrapI16(round_score + turn_score)
          /\ round_score' = WrapI16(round_score + turn_score)
          /\ pc' = "ask"
       \/ /\ round_score + turn_score # WrapI16(round_score + turn_score)
          /\ round_score' = round_score
          /\ pc' = "panicked"
    /\ UNCHANGED <<turn_score, num_kept, result, rolled, beyond>>
    /\ UNCHANGED libVars

\* keep_score() reads a line containing "y"
Bank ==
    /\ pc = "ask"
    /\ result' = round_score
    /\ pc' = "done"
    /\ UNCHANGED <<num_dice, round_score, turn_score, num_kept, rolled, beyond,
                   total>>
    /\ UNCHANGED libVars

\* keep_score() reads a line with neither "y" nor "q"
Decline ==
    /\ pc = "ask"
    /\ pc' = "turn"
    /\ UNCHANGED <<num_dice, round_score, turn_score, num_kept, result, rolled,
                   beyond, total>>
    /\ UNCHANGED libVars

\* keep_score() reads a line containing "q" and no "y"
QuitAtBank ==
    /\ pc = "ask"
    /\ pc' = "exited"
    /\ UNCHANGED <<num_dice, round_score, turn_score, num_kept, result, rolled,
                   beyond, total>>
    /\ UNCHANGED libVars

Next == Turn \/ QuitAtKeep \/ Bust \/ Continue \/ Bank \/ Decline \/ QuitAtBank

Spec == Init /\ [][Next]_vars

(***************************************************************************)
(* The library functions applied to a dice set                             *)
(***************************************************************************)
\* the domain the functions are written for: at most TOTAL_DICE dice, faces 1..6
InDomain(d) == Len(d) <= TOTAL_DICE /\ \A i \in DOMAIN d : d[i] \in Faces

DiceInputs ==
    SeqsOf(Faces, 0, TOTAL_DICE)
    \cup SeqsOf(1..LongFaces, TOTAL_DICE + 1, TOTAL_DICE + MaxExtra)
    \cup SeqsOf((MinFace - 1)..(MaxFace + 1), 1, MaxBadLen)

IsSorted(d) == \A i \in 1..(Len(d) - 1) : d[i] <= d[i + 1]

RECURSIVE Ascending(_)
Ascending(S) ==
    IF S = {} THEN << >>
    ELSE LET m == CHOOSE x \in S : \A y \in S : x <= y
         IN  <<m>> \o Ascending(S \ {m})

Reverse(o) == [i \in 1..Len(o) |-> o[Len(o) + 1 - i]]

\* The iteration orders tried on a dice set: the two monotone orders for every
\* dice set, and every order for the non-decreasing dice sets (one dice set of
\* each multiset).
OrdersTried(d) ==
    IF IsSorted(d) THEN IterOrders(d)
    ELSE {Ascending(Range(d)), Reverse(Ascending(Range(d)))}

\* the maps of the calls inside get_score each have an order of their own
ScoreOrders(d) ==
    {SameOrder(o) : o \in OrdersTried(d)}
    \cup {[p |-> o, k |-> o, s |-> Reverse(o)] : o \in OrdersTried(d)}

LibInit ==
    /\ hand \in DiceInputs
    /\ call = "none"
    /\ ret = NoOutcome
    /\ pcall = "none"
    /\ pret = NoOutcome

RoundIdle ==
    /\ pc = "idle"
    /\ num_dice = TOTAL_DICE
    /\ round_score = 0
    /\ turn_score = 0
    /\ num_kept = 0
    /\ result = 0
    /\ rolled = 0
    /\ beyond = FALSE
    /\ total = 0

InitLib == LibInit /\ RoundIdle

\* get_score(&hand), at most twice in a row
GetScore ==
    /\ call \in {"none", "get_score"}
    /\ pcall = "none"
    /\ \E o \in ScoreOrders(hand) :
          ret' = [kind |-> "score", value |-> get_score(hand, o)]
    /\ call' = "get_score"
    /\ pcall' = call
    /\ pret' = ret
    /\ UNCHANGED hand
    /\ UNCHANGED roundVars

IsTwoTriplets ==
    /\ call = "none"
    /\ \E o \in OrdersTried(hand) :
          ret' = [kind |-> "bool", value |-> is_two_triplets(hand, o)]
    /\ call' = "is_two_triplets"
    /\ pcall' = call
    /\ pret' = ret
    /\ UNCHANGED hand
    /\ UNCHANGED roundVars

StripRepeats ==
    /\ call = "none"
    /\ \E o \in OrdersTried(hand) :
          ret' = [kind |-> "dice", value |-> strip_repeats(hand, o)]
    /\ call' = "strip_repeats"
    /\ pcall' = call
    /\ pret' = ret
    /\ UNCHANGED hand
    /\ UNCHANGED roundVars

\* keep_repeats(&hand), alone or after strip_repeats(&hand)
KeepRepeats ==
    /\ call \in {"none", "strip_repeats"}
    /\ \E o \in OrdersTried(hand) :
          ret' = [kind |-> "dice", value |-> keep_repeats(hand, o)]
    /\ call' = "keep_repeats"
    /\ pcall' = call
    /\ pret' = ret
    /\ UNCHANGED hand
    /\ UNCHANGED roundVars

NextScore == GetScore

SpecScore == InitLib /\ [][NextScore]_vars

NextClassify == IsTwoTriplets \/ StripRepeats \/ KeepRepeats

SpecClassify == InitLib /\ [][NextClassify]_vars

(***************************************************************************)
(* Properties                                                              *)
(***************************************************************************)
\* the number of dice of d showing v
Mult(d, v) == Cardinality({i \in DOMAIN d : d[i] = v})

\* The scoring table, read off the multiplicities of the faces.
GroupScore(d) ==
    IF \E v \in Faces : Mult(d, v) >= 5 THEN 3000
    ELSE IF \E v \in Faces : Mult(d, v) >= 4 THEN 2000
    ELSE IF \E v \in Faces : Mult(d, v) >= 3
         THEN LET v == CHOOSE w \in Faces : Mult(d, w) >= 3
              IN  IF v = 1 THEN 1000 ELSE v * 100
         ELSE 0

Leftover(d, v) == IF Mult(d, v) < 3 THEN Mult(d, v) ELSE 0

TableScore(d) ==
    IF Cardinality({v \in Faces : Mult(d, v) >= 3}) = 2 THEN 2500
    ELSE IF Cardinality({v \in Faces : Mult(d, v) = 2}) = 3 THEN 1500
    ELSE IF \A v \in Faces : Mult(d, v) >= 1 THEN 1500
    ELSE IF \E v \in Faces : Mult(d, v) >= 6 THEN 5000
    ELSE GroupScore(d) + 100 * Leftover(d, 1) + 50 * Leftover(d, 5)

\* C1: for every dice set of 0..6 dice with faces 1..6, get_score returns the
\* score of the table: 2500 for two triplets, else 1500 for three pairs, else
\* 1500 for a straight, else 5000 for six of a kind, otherwise the group score
\* (3000, 2000, 1000 or v*100, or 0) plus 100 for each 1 and 50 for each 5
\* among the dice whose face shows fewer than three times.
C1_ScoreIsTableScore ==
    (call = "get_score" /\ InDomain(hand)) => ret.value = TableScore(hand)

C1_Witness ==
    /\ call = "get_score"
    /\ hand = <<4, 4, 1, 4, 4, 5>>
    /\ ret.value = 2150

\* C6: applied to a dice set outside its domain (more than 6 dice, or a face
\* outside 1..6), get_score ends with an InvalidInput error and returns no score.
C6_OutOfDomainIsInvalidInput ==
    (call = "get_score" /\ ~InDomain(hand)) => ret.kind = "InvalidInput"

\* C7: for every dice set of at most 6 dice with faces 1..6 the score is >= 0,
\* and a second evaluation of the same dice set returns the same score,
\* whatever orders the count maps are iterated in.
C7_DeterministicNonNegative ==
    (call = "get_score" /\ InDomain(hand)) =>
        /\ ret.value >= 0
        /\ pcall = "get_score" => ret.value = pret.value

C7_Witness ==
    /\ call = "get_score"
    /\ pcall = "get_score"
    /\ hand = <<5, 2, 3, 2, 1, 2>>
    /\ ret.value = 350
    /\ pret.value = 350

IsPermOf112233(d) ==
    Len(d) = 6 /\ Mult(d, 1) = 2 /\ Mult(d, 2) = 2 /\ Mult(d, 3) = 2

\* C8 as stated: is_two_triplets returns true for [1,1,2,2,3,3] and for every
\* permutation of it.
C8_TrueOnThreePairs ==
    (call = "is_two_triplets" /\ IsPermOf112233(hand)) => ret.value = TRUE

\* C8 as amended: is_two_triplets returns false for [1,1,2,2,3,3] (no face
\* shows three times), and the same verdict, false, for every permutation of it.
C8_FalseOnThreePairs ==
    (call = "is_two_triplets" /\ IsPermOf112233(hand)) => ret.value = FALSE

C8_Witness ==
    /\ call = "is_two_triplets"
    /\ hand = <<3, 1, 2, 3, 2, 1>>
    /\ ret.value = FALSE

\* the dice of d, in their order in d, whose face shows fewer than three times
SubSeqFew(d) ==
    LET Few(x) == Mult(d, x) < 3 IN SelectSeq(d, Few)

SubSeqMany(d) ==
    LET Many(x) == Mult(d, x) >= 3 IN SelectSeq(d, Many)

\* C9 as stated: strip_repeats(d) is the sub-sequence of d, in the original
\* order, of the dice whose face shows fewer than three times, and
\* keep_repeats(d) the complementary sub-sequence.
C9_SubSequences ==
    InDomain(hand) =>
        /\ call = "strip_repeats" => ret.value = SubSeqFew(hand)
        /\ call = "keep_repeats" => ret.value = SubSeqMany(hand)

\* C9 as amended: strip_repeats(d) holds exactly the dice of d whose face shows
\* fewer than three times and keep_repeats(d) exactly the others, each face as
\* often as in d but in the order the count map is iterated in; together the two
\* results hold each die of d exactly once.
C9_SameDiceAnyOrder ==
    InDomain(hand) =>
        /\ call = "strip_repeats" =>
              \A v \in Range(hand) \cup Range(ret.value) :
                  Mult(ret.value, v) = Leftover(hand, v)
        /\ call = "keep_repeats" =>
              \A v \in Range(hand) \cup Range(ret.value) :
                  Mult(ret.value, v) = Mult(hand, v) - Leftover(hand, v)
        /\ (call = "keep_repeats" /\ pcall = "strip_repeats") =>
              /\ Len(pret.value) + Len(ret.value) = Len(hand)
              /\ \A v \in Range(hand) :
                    Mult(pret.value, v) + Mult(ret.value, v) = Mult(hand, v)

C9_Witness ==
    /\ call = "keep_repeats"
    /\ pcall = "strip_repeats"
    /\ hand = <<2, 1, 2, 2, 5>>
    /\ pret.value = <<5, 1>>
    /\ ret.value = <<2, 2, 2>>

\* C2: when a turn busts (nothing kept, or a score of 0) the round ends at
\* once and returns 0: the next step is the return, with no further turn and no
\* banking question.
C2_BustEndsRoundWithZero ==
    [][(pc = "check" /\ (num_kept = 0 \/ turn_score = 0))
          => (pc' = "done" /\ result' = 0)]_vars

C2_Witness ==
    /\ pc = "done"
    /\ result = 0
    /\ total > 0
    /\ num_kept > 0
    /\ turn_score = 0

\* C3: the value round() returns is 0 or exactly the arithmetic sum of the
\* scores of the turns completed before banking.
C3_ReturnsZeroOrSum ==
    pc = "done" => (result = 0 \/ result = total)

\* C4: after a turn that does not bust, the next pool size is 6 when as many
\* dice were kept as the pool held, and the pool size minus the number kept
\* when fewer were kept.
C4_NextPoolSize ==
    pc = "ask" =>
        /\ num_kept = rolled => num_dice = 6
        /\ num_kept < rolled => num_dice = rolled - num_kept

C4_Witness ==
    /\ pc = "ask"
    /\ rolled = 2
    /\ num_kept = 2
    /\ num_dice = 6

\* C5: the pool size passed to the next turn is always in 1..6, also after keep
\* selections that name positions beyond the pool.
C5_PoolSizeInRange == num_dice \in 1..6

C5_Witness ==
    /\ pc = "turn"
    /\ beyond
    /\ rolled = 3
    /\ num_kept = 1
    /\ num_dice = 2

\* C10: the round score accumulator is never negative, however many turns in a
\* row score without banking.
C10_AccumulatorNonNegative == round_score >= 0
====
